---- MODULE Spec2Model ----
(***************************************************************************)
(* Tiered authorization gate of the Nubila protected MCP servers.          *)
(*                                                                         *)
(* The module models module load (tool registration) and the execute       *)
(* function that src/protected-server.js, src/unnamed/part_002 and         *)
(* src/protected-server-simple.js register for every tool, together with   *)
(* the external collaborators execute talks to: the tool handler and the   *)
(* Radius Entitlement Checker (radius.protect).  Every await of execute is *)
(* a suspension point, so one call is a sequence of steps.                 *)
(***************************************************************************)
EXTENDS Integers, Sequences, FiniteSets, TLC

(***************************************************************************)
(* Bounds                                                                  *)
(***************************************************************************)
\* number of call slots: calls that can be in flight (or finished and not
\* yet forgotten) at the same time
MaxCalls == 1

\* how many calls of execute are in flight at once in the concurrency study
MaxConcurrent == 2

\* the longest forecast determineTrend is applied to
MaxTrendEntries == 7

\* how many shutdown signals a process receives
MaxSignals == 2

\* the largest `hours` a forecast is asked for, and the longest forecast the
\* provider sends
MaxHours == 4
MaxEntries == 3

\* how many times the schema augmentation is applied to the schemas under study
MaxAugment == 2

(***************************************************************************)
(* JavaScript values.  Every value is a record tagged by k.                *)
(*   undefined, null, plain strings, strings holding JSON text, objects,   *)
(*   arrays, numbers and Error objects.                                    *)
(***************************************************************************)
Undefined == [k |-> "undefined"]
Null == [k |-> "null"]
Str(s) == [k |-> "str", raw |-> s]
Num(n) == [k |-> "num", n |-> n]
Obj(f) == [k |-> "obj", f |-> f]
Arr(s) == [k |-> "arr", s |-> s]
Error(m) == [k |-> "Error", message |-> m]
EmptyObj == Obj([x \in {} |-> Undefined])

IsString(v) == v.k \in {"str", "json"}
IsObject(v) == v.k \in {"obj", "arr", "null", "Error"}
IsArray(v) == v.k = "arr"
\* JavaScript truthiness
Truthy(v) == /\ v.k \notin {"undefined", "null"}
             /\ v # Str("")
             /\ v # Num(0)
\* the `in` operator, applied to an object
HasKey(o, name) == o.k = "obj" /\ name \in DOMAIN o.f
\* property access o.name (undefined when the property is missing)
Get(o, name) == IF HasKey(o, name) THEN o.f[name]
                ELSE IF o.k = "Error" /\ name = "message" THEN o.message
                ELSE Undefined
\* a || b
OrElse(a, b) == IF Truthy(a) THEN a ELSE b
\* arr[0]
First(a) == IF a.k = "arr" /\ Len(a.s) > 0 THEN a.s[1] ELSE Undefined

\* JSON.stringify(v, null, 2) when pretty, JSON.stringify(v) otherwise.  The
\* text of a string is returned as a value that remembers what was encoded
\* and how: indentation only shows for an object with at least one property.
JSONstringify(v, pretty) ==
    [k |-> "json",
     fmt |-> IF pretty /\ v.k = "obj" /\ DOMAIN v.f # {} THEN "pretty" ELSE "compact",
     v |-> v]

\* JSON.parse(text): ok with the decoded value, or a SyntaxError
JSONparse(text) ==
    IF text.k = "json" THEN [ok |-> TRUE, v |-> text.v]
    ELSE IF text.k = "null" THEN [ok |-> TRUE, v |-> Null]
    ELSE IF text.k = "num" THEN [ok |-> TRUE, v |-> text]
    ELSE [ok |-> FALSE, v |-> Undefined]

\* outcome of an async function: a returned value or a thrown failure
Return(v) == [k |-> "return", v |-> v]
Throw(e) == [k |-> "throw", e |-> e]
Pending == [k |-> "pending"]

(***************************************************************************)
(* Program constants                                                       *)
(***************************************************************************)
\* the reserved argument key that carries the authorization proof
RESERVED == "__evmauth"

\* the HTTP-transport server whose code the README gives
HttpServer == "README.md"

\* the servers that test the tier before the flag and strip the proof on the demo branch
FullServers == {"protected-server.js", HttpServer}

\* the servers that wrap the tools with radius.protect
Servers == {"protected-server.js", "part_002", "protected-server-simple.js"}

\* a variant of the tier table that lost the entry of getForecast
TOKEN_REQUIREMENTS_Incomplete ==
    [ping |-> 0,
     getCurrentWeather |-> 1,
     getDetailedWeatherAnalysis |-> 5]

\* export const TOKEN_REQUIREMENTS
TOKEN_REQUIREMENTS ==
    [ping |-> 0,
     getCurrentWeather |-> 1,
     getForecast |-> 3,
     getDetailedWeatherAnalysis |-> 5]

\* Object.keys(nubilaTools)
nubilaTools == {"ping", "getCurrentWeather", "getForecast", "getDetailedWeatherAnalysis"}

\* the fields each tool's inputSchema (z.object) declares, in declaration order
inputSchema(toolName) ==
    CASE toolName = "getCurrentWeather" -> <<"latitude", "longitude", "units">>
      [] toolName = "getForecast" -> <<"latitude", "longitude", "hours", "units">>
      [] toolName = "getDetailedWeatherAnalysis" -> <<"latitude", "longitude", "purpose", "units">>
      [] OTHER -> <<>>

\* what a zod object schema keeps under _def.shape: the shape object itself,
\* or a function that returns it (the library version is not fixed by src/)
ZodShapes == {"object", "function"}

(***************************************************************************)
(* State                                                                   *)
(***************************************************************************)
VARIABLES
    server,      \* the server file this process runs
    tools,       \* keys of nubilaTools the process was loaded with
    tokenReq,    \* the TOKEN_REQUIREMENTS object of the process
    env,         \* process.env.DEMO_MODE
    loadEnv,     \* process.env.DEMO_MODE as it was while the module loaded
    registered,  \* per tool: what the registration loop captured and passed to addTool
    calls,       \* per call slot: the state of one execute(args) call
    zod,         \* what _def.shape of a schema is in the zod library in use
    schemas,     \* schema objects by reference: each the sequence of its field names
    augmented,   \* the augmentations applied: tier, schema given, schema passed to addTool
    fetch,       \* one run of getForecast.handler and its makeNubilaRequest
    trend,       \* one application of determineTrend: the forecast and the result
    proc         \* the life of a server process: start, signals, stop, exit

vars == <<server, tools, tokenReq, env, loadEnv, registered, calls, zod, schemas, augmented,
          fetch, trend, proc>>

\* the call slots of the process
CallIds == DOMAIN calls

\* values process.env.DEMO_MODE can hold
EnvValues == {"true", "false"}

(***************************************************************************)
(* Module load: Object.entries(nubilaTools).forEach(...)                   *)
(***************************************************************************)
\* const tokenId = TOKEN_REQUIREMENTS[toolName];
tokenId(reqs, toolName) ==
    IF toolName \in DOMAIN reqs THEN Num(reqs[toolName]) ELSE Undefined

\* const DEMO_MODE = process.env.DEMO_MODE === 'true';
DEMO_MODE(envValue) == envValue = "true"

\* the field names a schema declares
Fields(schema) == {schema[i] : i \in DOMAIN schema}

\* a variant of extend that adds the field without looking for an earlier declaration
extend_Appends(schema, key) == Append(schema, key)

\* tool.inputSchema.extend({__evmauth: ...}): a new schema whose shape is
\* {...shape, ...augmentation}; a key the shape already has keeps its place
extend(schema, key) ==
    IF key \in Fields(schema) THEN schema ELSE Append(schema, key)

\* const schemaObj = parameters._def || parameters;
\* schemaObj && schemaObj.shape && !schemaObj.shape.__evmauth
\* (a property read on a function yields undefined)
ShapeLacksProof(schema, shape) ==
    IF shape = "function" THEN TRUE ELSE RESERVED \notin Fields(schema)

\* a variant of parameters that adds the field to the schema object it was given
parameters_InPlace(heap, ref, tid, shape) ==
    IF tid # Num(0) /\ ShapeLacksProof(heap[ref], shape)
    THEN [heap |-> [heap EXCEPT ![ref] = extend(heap[ref], RESERVED)], ref |-> ref]
    ELSE [heap |-> heap, ref |-> ref]

\* let parameters = tool.inputSchema; if (tokenId !== 0) { ... parameters = tool.inputSchema.extend(...) }
\* heap holds the schema objects, ref is tool.inputSchema; the result is the
\* heap afterwards and the object the variable parameters refers to
parameters(heap, ref, tid, shape) ==
    IF tid # Num(0) /\ ShapeLacksProof(heap[ref], shape)
    THEN [heap |-> Append(heap, extend(heap[ref], RESERVED)), ref |-> Len(heap) + 1]
    ELSE [heap |-> heap, ref |-> ref]

\* description: tokenId === 0 ? tool.description : `${tool.description} Requires EVMAuth Token #${tokenId}. ...`
description(toolName, tid) ==
    IF tid = Num(0) THEN [base |-> toolName, requires |-> Undefined]
    ELSE [base |-> toolName, requires |-> tid]

\* a variant of RegisterTool in which every closure ends up with the handler
\* of one and the same tool
RegisterTool_SharedHandler(reqs, envValue, toolName) ==
    LET tid == tokenId(reqs, toolName)
        passed == parameters(<<inputSchema(toolName)>>, 1, tid, "function")
    IN
    [tokenId |-> tid,
     originalHandler |-> "getDetailedWeatherAnalysis",
     DEMO_MODE |-> DEMO_MODE(envValue),
     parameters |-> passed.heap[passed.ref],
     description |-> description(toolName, tid)]

\* one iteration of the registration loop: the values the execute closure
\* captures (tokenId, originalHandler = tool.handler, named by its tool, and
\* DEMO_MODE) and the tool definition handed to server.addTool
RegisterTool(reqs, envValue, toolName) ==
    LET tid == tokenId(reqs, toolName)
        passed == parameters(<<inputSchema(toolName)>>, 1, tid, "function")
    IN
    [tokenId |-> tid,
     originalHandler |-> toolName,
     DEMO_MODE |-> DEMO_MODE(envValue),
     parameters |-> passed.heap[passed.ref],
     description |-> description(toolName, tid)]

(***************************************************************************)
(* execute(args)                                                           *)
(***************************************************************************)
\* a variant of GateFlag that evaluates process.env.DEMO_MODE on every call
GateFlag_ReadPerCall(reg, envValue) == DEMO_MODE(envValue)

\* if (DEMO_MODE): the constant the execute closure captured while the module
\* loaded; the environment of the time of the call is not looked at
GateFlag(reg, envValue) == reg.DEMO_MODE

\* a variant of Branch that bypasses the Checker for every tool
Branch_AlwaysBypass(srv, reg, envValue) ==
    IF reg.tokenId = Num(0) THEN "free" ELSE "demo"

\* which branch of execute a call takes
Branch(srv, reg, envValue) ==
    IF srv \in FullServers
    THEN IF reg.tokenId = Num(0) THEN "free"
         ELSE IF GateFlag(reg, envValue) THEN "demo" ELSE "gated"
    ELSE IF GateFlag(reg, envValue) THEN "demo"
         ELSE IF reg.tokenId = Num(0) THEN "free" ELSE "gated"

\* a variant of cleanArgs that copies the bag and forgets the delete
cleanArgs_KeepsProof(args) == IF args.k = "obj" THEN args ELSE EmptyObj

\* a variant of cleanArgs that hands on an empty bag
cleanArgs_DropsAll(args) == EmptyObj

\* const cleanArgs = { ...args }; delete cleanArgs.__evmauth;
cleanArgs(args) ==
    IF args.k = "obj"
    THEN Obj([key \in DOMAIN args.f \ {RESERVED} |-> args.f[key]])
    ELSE EmptyObj

\* a variant of ArgsAfterStrip where cleanArgs is the bag itself, not a copy
ArgsAfterStrip_InPlace(args) == cleanArgs(args)

\* the object `args` refers to once `const cleanArgs = { ...args }; delete
\* cleanArgs.__evmauth;` has run: the spread made a new object and the delete
\* acted on that one
ArgsAfterStrip(args) == args

\* a variant of DirectArgs that strips the proof on the free branch too
DirectArgs_AlwaysStrip(srv, branch, args) == cleanArgs(args)

\* the arguments the handler is called with on the free and demo branches
DirectArgs(srv, branch, args) ==
    IF srv \in FullServers /\ branch = "demo" THEN cleanArgs(args) ELSE args

\* { content: [{ type: "text", text }] }
Envelope(text) == Obj([content |-> Arr(<<Obj([type |-> Str("text"), text |-> text])>>)])

\* text: typeof result === 'string' ? result : JSON.stringify(result, null, 2)
WrapResult(result) ==
    Envelope(IF IsString(result) THEN result ELSE JSONstringify(result, TRUE))

\* a variant of mcpRequest that hands the Checker the stripped arguments
mcpRequest_Stripped(toolName, args) ==
    Obj([method |-> Str("tools/call"),
         params |-> Obj([name |-> Str(toolName), arguments |-> cleanArgs(args)])])

\* const mcpRequest = { method: 'tools/call', params: { name: toolName, arguments: args } };
mcpRequest(toolName, args) ==
    Obj([method |-> Str("tools/call"),
         params |-> Obj([name |-> Str(toolName), arguments |-> args])])

\* inner callback: const toolArgs = request.params?.arguments || {};
toolArgs(request) == OrElse(Get(Get(request, "params"), "arguments"), EmptyObj)

\* inner callback: the envelope built around the handler's result
CallbackWrap(srv, result) ==
    IF srv = "protected-server.js"
    THEN Envelope(JSONstringify(result, FALSE))
    ELSE IF srv = HttpServer THEN Envelope(result)
    ELSE WrapResult(result)

\* the body of the inner try of the response handling:
\*   const parsed = JSON.parse(firstContent.text);
\*   if (parsed.error) throw new Error(firstContent.text);
\*   return response;
ParseAttempt(response, text) ==
    LET p == JSONparse(text) IN
    IF ~p.ok THEN Throw(Error(Str("SyntaxError")))
    ELSE IF p.v.k \in {"null", "undefined"} THEN Throw(Error(Str("TypeError")))
    ELSE IF Truthy(Get(p.v, "error")) THEN Throw(Error(text))
    ELSE Return(response)

\* a variant of NestedErrorCheck without the catch
NestedErrorCheck_NoCatch(response, text) == ParseAttempt(response, text)

\* try { ParseAttempt } catch (e) { return response; }
NestedErrorCheck(response, text) ==
    LET r == ParseAttempt(response, text) IN
    IF r.k = "throw" THEN Return(response) ELSE r

\* a variant of HandleResponse without the else-if for a top-level error
HandleResponse_IgnoresTopLevelError(response) ==
    IF Truthy(response) /\ IsObject(response)
       /\ HasKey(response, "content") /\ IsArray(Get(response, "content"))
       /\ Truthy(First(Get(response, "content")))
       /\ IsObject(First(Get(response, "content")))
       /\ HasKey(First(Get(response, "content")), "text")
    THEN NestedErrorCheck(response, Get(First(Get(response, "content")), "text"))
    ELSE Return(response)

\* the try block of execute after `const response = await protectedHandler(mcpRequest)`
HandleResponse(response) ==
    IF Truthy(response) /\ IsObject(response)
    THEN IF HasKey(response, "content") /\ IsArray(Get(response, "content"))
         THEN LET firstContent == First(Get(response, "content")) IN
              IF Truthy(firstContent) /\ IsObject(firstContent) /\ HasKey(firstContent, "text")
              THEN NestedErrorCheck(response, Get(firstContent, "text"))
              ELSE Return(response)
         ELSE IF HasKey(response, "error") /\ Truthy(Get(response, "error"))
         THEN Throw(Error(OrElse(Get(Get(response, "error"), "message"),
                                 Str("Authentication failed"))))
         ELSE Return(response)
    ELSE Return(response)

\* the response handling reached its end without a return or a throw
FellThrough == [k |-> "fell through"]

\* the inner try of the HTTP variant, whose catch also catches its own throw:
\*   try { const parsed = JSON.parse(firstContent.text);
\*         if (parsed.error) throw new Error(firstContent.text); }
\*   catch (e) { return firstContent.text; }
\* FellThrough when the try ends without a throw
HttpNestedErrorCheck(response, text) ==
    IF ParseAttempt(response, text).k = "throw" THEN Return(text) ELSE FellThrough

\* the try block of execute in the HTTP variant after
\* `const response = await protectedHandler(mcpRequest)`
HttpHandleResponse(response) ==
    LET firstContent == First(Get(response, "content"))
        checked ==
            IF Truthy(response) /\ IsObject(response)
            THEN IF HasKey(response, "content") /\ IsArray(Get(response, "content"))
                 THEN IF Truthy(firstContent) /\ IsObject(firstContent)
                         /\ HasKey(firstContent, "text")
                      THEN HttpNestedErrorCheck(response, Get(firstContent, "text"))
                      ELSE FellThrough
                 ELSE IF HasKey(response, "error") /\ Truthy(Get(response, "error"))
                 THEN Throw(Error(OrElse(Get(Get(response, "error"), "message"),
                                         Str("Authentication failed"))))
                 ELSE FellThrough
            ELSE FellThrough
    IN  IF checked = FellThrough
        THEN Throw(Error(Str("Unexpected response from authentication")))
        ELSE checked

\* what execute does with the value protectedHandler resolved to
Settle(srv, response) ==
    IF srv = "protected-server-simple.js" THEN Return(response)
    ELSE IF srv = HttpServer THEN HttpHandleResponse(response)
    ELSE HandleResponse(response)

\* a variant of Rethrow that throws a failure of its own
Rethrow_Replaces(error) == Throw(Error(Str("Authentication failed")))

\* catch (error) { console.error(...); throw error; }
Rethrow(error) == Throw(error)

(***************************************************************************)
(* Inputs and the behaviours of the external collaborators                 *)
(***************************************************************************)
\* an authorization proof as JSON text, and a proof that JSON.parse rejects
ValidProof == JSONstringify(Obj([signature |-> Str("0xsig")]), FALSE)
GarbageProof == Str("<invalid-json>")
ProofValues == {ValidProof, GarbageProof}

\* the argument bags callers send
PlainArgs == Obj("latitude" :> Num(37))
ArgBags ==
    {PlainArgs}
    \cup {Obj(("latitude" :> Num(37)) @@ (RESERVED :> p)) : p \in ProofValues}

\* what a tool handler resolves to, and the failure it rejects with
HandlerResults == {Str("sunny"), Obj([status |-> Str("ok")])}
HandlerFailures == {Error(Str("Failed to get forecast: No response from Nubila API"))}

\* the denial payload of the Entitlement Checker
DenialError == Obj([code |-> Str("EVMAUTH_PROOF_MISSING"), message |-> Str("X")])
\* what the Checker-wrapped function resolves to when it does not run the callback
CheckerResponses ==
    {Obj([error |-> DenialError]),
     Obj([error |-> Obj([code |-> Str("EVMAUTH_PROOF_MISSING")])]),
     Obj([error |-> Obj([message |-> Str("")])]),
     Obj([content |-> Arr(<<>>), error |-> DenialError]),
     Envelope(JSONstringify(Obj([error |-> DenialError]), FALSE)),
     Envelope(Str("plain text")),
     Null}
\* what the Checker-wrapped function rejects with
CheckerFailures == {Error(Str("EVMAUTH_PROOF_MISSING"))}

\* the request the Checker hands to the inner callback: the one it was given,
\* or one of its own making without params
RequestViews(request) == {request, Obj([method |-> Str("tools/call")])}

(***************************************************************************)
(* One call of execute                                                     *)
(***************************************************************************)
IdleCall ==
    [pc |-> "idle", op |-> "", args |-> Undefined, envAtCall |-> "false",
     branch |-> "none", proofLog |-> Undefined,
     protectCalls |-> 0, protectTier |-> Undefined,
     wrappedCalls |-> 0, request |-> Undefined,
     cbCalls |-> 0, cbRequest |-> Undefined,
     callerBag |-> Undefined,
     originalHandler |-> "", handlerInvoked |-> "",
     handlerCalls |-> 0, handlerArgs |-> Undefined, handlerResult |-> Pending,
     cbResult |-> Pending, responded |-> FALSE, response |-> Undefined,
     rejection |-> Undefined,
     outcome |-> Pending]

\* the try body of the proof logging:
\*   const authProof = typeof args.__evmauth === 'string' ? JSON.parse(args.__evmauth) : args.__evmauth;
\*   logToFile(`... ${authProof.signature?.length}`);
ProofParse(proof) ==
    LET authProof == IF IsString(proof) THEN JSONparse(proof)
                     ELSE [ok |-> TRUE, v |-> proof] IN
    IF ~authProof.ok THEN Throw(Error(Str("SyntaxError")))
    ELSE IF authProof.v.k \in {"null", "undefined"} THEN Throw(Error(Str("TypeError")))
    ELSE Return(Str("proof parsed"))

\* a variant of ProofInspection without the catch around the parse
ProofInspection_NoCatch(args) ==
    IF Truthy(Get(args, RESERVED)) THEN ProofParse(Get(args, RESERVED))
    ELSE Return(Str("no proof"))

\* if (args.__evmauth) { try { ProofParse } catch (e) { log } } else { log }:
\* what the gated branch logs about the proof before it builds mcpRequest
ProofInspection(args) ==
    IF Truthy(Get(args, RESERVED))
    THEN LET r == ProofParse(Get(args, RESERVED)) IN
         IF r.k = "throw" THEN Return(Str("proof not parsed")) ELSE r
    ELSE Return(Str("no proof"))

\* execute(args) up to its first await: on the free and demo branches the
\* handler is called; on the gated branch radius.protect wraps the inner
\* callback and the wrapped function is called with mcpRequest
StartCall(srv, reg, envValue, toolName, args) ==
    LET branch == Branch(srv, reg, envValue)
        base == [IdleCall EXCEPT !.op = toolName, !.args = args,
                                 !.envAtCall = envValue, !.branch = branch,
                                 !.originalHandler = reg.originalHandler,
                                 !.callerBag = args]
        inspected == ProofInspection(args)
    IN  IF branch = "gated"
        THEN IF inspected.k = "throw"
             THEN [base EXCEPT !.pc = "done", !.outcome = inspected]
             ELSE [base EXCEPT !.pc = "checker", !.proofLog = inspected.v,
                               !.protectCalls = 1, !.protectTier = reg.tokenId,
                               !.wrappedCalls = 1, !.request = mcpRequest(toolName, args)]
        ELSE [base EXCEPT !.pc = "handler",
                          !.callerBag = IF DirectArgs(srv, branch, args) = args THEN args
                                        ELSE ArgsAfterStrip(args),
                          !.handlerCalls = 1, !.handlerInvoked = reg.originalHandler,
                          !.handlerArgs = DirectArgs(srv, branch, args)]

\* a variant of RunCallback that calls the handler with the Checker's arguments as they are
RunCallback_NoStrip(call, request) ==
    [call EXCEPT !.pc = "handler",
                 !.cbCalls = @ + 1, !.cbRequest = request,
                 !.handlerCalls = @ + 1, !.handlerInvoked = call.originalHandler,
                 !.handlerArgs = toolArgs(request)]

\* a variant of RunCallback that takes the arguments from the caller's bag
RunCallback_CallerArgs(call, request) ==
    [call EXCEPT !.pc = "handler",
                 !.cbCalls = @ + 1, !.cbRequest = request,
                 !.handlerCalls = @ + 1, !.handlerInvoked = call.originalHandler,
                 !.handlerArgs = cleanArgs(call.args)]

\* the inner callback runs: it strips the proof and calls the handler.  When
\* the Checker hands on the request it was given, toolArgs is the very object
\* the caller passed
RunCallback(call, request) ==
    [call EXCEPT !.pc = "handler",
                 !.callerBag = IF request = call.request /\ toolArgs(request) = call.args
                               THEN ArgsAfterStrip(call.args) ELSE @,
                 !.cbCalls = @ + 1, !.cbRequest = request,
                 !.handlerCalls = @ + 1, !.handlerInvoked = call.originalHandler,
                 !.handlerArgs = cleanArgs(toolArgs(request))]

\* the handler settled with `settled` (Return or Throw)
AfterHandler(srv, call, settled) ==
    IF call.branch = "gated"
    THEN [call EXCEPT !.pc = "cbSettled", !.handlerResult = settled,
                      !.cbResult = IF settled.k = "return"
                                   THEN Return(CallbackWrap(srv, settled.v))
                                   ELSE settled]
    ELSE [call EXCEPT !.pc = "done", !.handlerResult = settled,
                      !.outcome = IF settled.k = "return"
                                  THEN Return(WrapResult(settled.v))
                                  ELSE settled]

\* a variant of AfterChecker that calls the wrapped function a second time
\* when the first call failed
AfterChecker_Retries(srv, call, settled) ==
    IF settled.k = "return"
    THEN [call EXCEPT !.pc = "done", !.responded = TRUE, !.response = settled.v,
                      !.outcome = LET r == Settle(srv, settled.v) IN
                                  IF r.k = "throw" THEN Rethrow(r.e) ELSE r]
    ELSE IF call.wrappedCalls < 2
    THEN [call EXCEPT !.pc = "checker", !.wrappedCalls = @ + 1]
    ELSE [call EXCEPT !.pc = "done", !.rejection = settled.e,
                      !.outcome = Rethrow(settled.e)]

\* the Checker-wrapped function settled with `settled` (Return or Throw)
AfterChecker(srv, call, settled) ==
    IF settled.k = "return"
    THEN [call EXCEPT !.pc = "done", !.responded = TRUE, !.response = settled.v,
                      !.outcome = LET r == Settle(srv, settled.v) IN
                                  IF r.k = "throw" THEN Rethrow(r.e) ELSE r]
    ELSE [call EXCEPT !.pc = "done", !.rejection = settled.e,
                      !.outcome = Rethrow(settled.e)]

(***************************************************************************)
(* Actions                                                                 *)
(***************************************************************************)
Frame == UNCHANGED <<server, tools, tokenReq, env, loadEnv, registered, zod, schemas, augmented,
                     fetch, trend, proc>>

\* a caller invokes the execute of a registered tool; the call takes the
\* lowest free slot (slots are interchangeable)
Call(c, toolName, args) ==
    /\ calls[c].pc = "idle"
    /\ \A d \in CallIds : d < c => calls[d].pc # "idle"
    /\ toolName \in tools
    /\ calls' = [calls EXCEPT ![c] =
                    StartCall(server, registered[toolName], env, toolName, args)]
    /\ Frame

\* the tool handler resolves
HandlerReturns(c, result) ==
    /\ calls[c].pc = "handler"
    /\ calls' = [calls EXCEPT ![c] = AfterHandler(server, @, Return(result))]
    /\ Frame

\* the tool handler rejects
HandlerThrows(c, error) ==
    /\ calls[c].pc = "handler"
    /\ calls' = [calls EXCEPT ![c] = AfterHandler(server, @, Throw(error))]
    /\ Frame

\* a variant of CheckerAuthorizes where the callback is handed the request of
\* whichever call is in flight
CheckerAuthorizes_AnyRequest(c, request) ==
    /\ calls[c].pc = "checker"
    /\ calls' = [calls EXCEPT ![c] = RunCallback(@, request)]
    /\ Frame

\* the Checker finds the caller entitled and invokes the inner callback
CheckerAuthorizes(c, request) ==
    /\ calls[c].pc = "checker"
    /\ request \in RequestViews(calls[c].request)
    /\ calls' = [calls EXCEPT ![c] = RunCallback(@, request)]
    /\ Frame

\* the Checker-wrapped function settles with what the inner callback settled with
CheckerPassesThrough(c) ==
    /\ calls[c].pc = "cbSettled"
    /\ calls' = [calls EXCEPT ![c] = AfterChecker(server, @, calls[c].cbResult)]
    /\ Frame

\* the Checker denies by resolving to a response of its own
CheckerResponds(c, response) ==
    /\ calls[c].pc = "checker"
    /\ calls' = [calls EXCEPT ![c] = AfterChecker(server, @, Return(response))]
    /\ Frame

\* the Checker denies (or fails) by rejecting
CheckerRejects(c, error) ==
    /\ calls[c].pc = "checker"
    /\ calls' = [calls EXCEPT ![c] = AfterChecker(server, @, Throw(error))]
    /\ Frame

\* something in the process assigns process.env.DEMO_MODE
SetEnv(value) ==
    /\ value # env
    /\ env' = value
    /\ UNCHANGED <<server, tools, tokenReq, loadEnv, registered, calls, zod, schemas, augmented,
                   fetch, trend, proc>>

\* the caller has consumed the outcome; the slot is free again
Forget(c) ==
    /\ calls[c].pc = "done"
    /\ calls' = [calls EXCEPT ![c] = IdleCall]
    /\ Frame

Next ==
    \/ \E c \in CallIds, toolName \in tools, args \in ArgBags : Call(c, toolName, args)
    \/ \E c \in CallIds, result \in HandlerResults : HandlerReturns(c, result)
    \/ \E c \in CallIds, error \in HandlerFailures : HandlerThrows(c, error)
    \/ \E c \in CallIds, request \in UNION {RequestViews(calls[d].request) : d \in CallIds} :
          CheckerAuthorizes(c, request)
    \/ \E c \in CallIds : CheckerPassesThrough(c)
    \/ \E c \in CallIds, response \in CheckerResponses : CheckerResponds(c, response)
    \/ \E c \in CallIds, error \in CheckerFailures : CheckerRejects(c, error)
    \/ \E value \in EnvValues : SetEnv(value)
    \/ \E c \in CallIds : Forget(c)

\* the state once the module has loaded: the registration loop has run
Loaded(srv, keys, reqs, envValue) ==
    /\ server = srv
    /\ tools = keys
    /\ tokenReq = reqs
    /\ env = envValue
    /\ loadEnv = envValue
    /\ registered = [t \in keys |-> RegisterTool(reqs, envValue, t)]
    /\ calls = [c \in 1..MaxCalls |-> IdleCall]

\* no handler of getForecast has been run
IdleFetch ==
    [pc |-> "idle", hours |-> 0, units |-> "C", requests |-> 0,
     settled |-> Pending, requestOutcome |-> Pending, outcome |-> Pending]

\* determineTrend has not been applied
NoTrend == [forecast |-> Undefined, applied |-> FALSE, result |-> ""]

\* the process is not under study
NoProcess ==
    [file |-> "", start |-> "pending", handlers |-> <<>>, stopCalls |-> 0,
     exit |-> Undefined]

\* the tools' helpers and the process are left alone
NoToolRuns ==
    /\ fetch = IdleFetch
    /\ trend = NoTrend
    /\ proc = NoProcess

\* no schema objects are under study besides the registered ones
NoSchemas ==
    /\ zod = "function"
    /\ schemas = <<>>
    /\ augmented = <<>>

\* src/protected-server.js with the repository's tools and tier table
Init ==
    \E envValue \in EnvValues :
        /\ Loaded("protected-server.js", nubilaTools, TOKEN_REQUIREMENTS, envValue)
        /\ NoSchemas
        /\ NoToolRuns

Spec == Init /\ [][Next]_vars

\* each of the servers that use radius.protect
InitServers ==
    \E srv \in Servers, envValue \in EnvValues :
        /\ Loaded(srv, nubilaTools, TOKEN_REQUIREMENTS, envValue)
        /\ NoSchemas
        /\ NoToolRuns

SpecServers == InitServers /\ [][Next]_vars

\* the HTTP-transport server of the README
InitHttp ==
    \E envValue \in EnvValues :
        /\ Loaded(HttpServer, nubilaTools, TOKEN_REQUIREMENTS, envValue)
        /\ NoSchemas
        /\ NoToolRuns

SpecHttp == InitHttp /\ [][Next]_vars

\* the servers loaded with tool tables other than the repository's: a tool
\* added to nubilaTools without a tier entry, and a tier entry removed
RegistryConfigs ==
    {<<nubilaTools, TOKEN_REQUIREMENTS>>,
     <<nubilaTools \cup {"getAirQuality"}, TOKEN_REQUIREMENTS>>,
     <<nubilaTools, [t \in DOMAIN TOKEN_REQUIREMENTS \ {"getForecast"} |-> TOKEN_REQUIREMENTS[t]]>>}

InitRegistries ==
    \E cfg \in RegistryConfigs, envValue \in EnvValues :
        /\ Loaded("protected-server.js", cfg[1], cfg[2], envValue)
        /\ NoSchemas
        /\ NoToolRuns

SpecRegistries == InitRegistries /\ [][Next]_vars

(***************************************************************************)
(* Several calls of execute in flight at once                              *)
(***************************************************************************)
\* one free and two gated operations
ConcurrentOps == {"ping", "getCurrentWeather", "getForecast"}

\* two bags that differ in a plain argument and in the proof
ConcurrentBags ==
    {PlainArgs, Obj(("latitude" :> Num(51)) @@ (RESERVED :> ValidProof))}

\* a denial and a plain-text envelope
ConcurrentResponses == {Obj([error |-> DenialError]), Envelope(Str("plain text"))}

\* the steps of the calls in flight; a finished call keeps its slot
NextConcurrent ==
    \/ \E c \in CallIds, toolName \in ConcurrentOps, args \in ConcurrentBags :
          Call(c, toolName, args)
    \/ \E c \in CallIds, result \in HandlerResults : HandlerReturns(c, result)
    \/ \E c \in CallIds, error \in HandlerFailures : HandlerThrows(c, error)
    \/ \E c \in CallIds, request \in UNION {RequestViews(calls[d].request) : d \in CallIds} :
          CheckerAuthorizes(c, request)
    \/ \E c \in CallIds : CheckerPassesThrough(c)
    \/ \E c \in CallIds, response \in ConcurrentResponses : CheckerResponds(c, response)
    \/ \E c \in CallIds, error \in CheckerFailures : CheckerRejects(c, error)

\* src/protected-server.js loaded, with room for MaxConcurrent calls
InitConcurrent ==
    \E envValue \in EnvValues :
        /\ server = "protected-server.js"
        /\ tools = nubilaTools
        /\ tokenReq = TOKEN_REQUIREMENTS
        /\ env = envValue
        /\ loadEnv = envValue
        /\ registered = [t \in nubilaTools |-> RegisterTool(TOKEN_REQUIREMENTS, envValue, t)]
        /\ calls = [c \in 1..MaxConcurrent |-> IdleCall]
        /\ NoSchemas
        /\ NoToolRuns

SpecConcurrent == InitConcurrent /\ [][NextConcurrent]_vars

(***************************************************************************)
(* The schema augmentation of the registration loop, applied to schemas    *)
(* other than the repository's                                             *)
(***************************************************************************)
\* field names of the schemas under study
SchemaFields == {"latitude", "units", RESERVED}

\* schemas of up to two distinct fields, in either order, with or without
\* the proof field
SchemaInputs ==
    {<<>>} \cup {<<f>> : f \in SchemaFields}
           \cup {<<f, g>> : <<f, g>> \in {p \in SchemaFields \X SchemaFields : p[1] # p[2]}}

\* values tokenId takes: the tiers of the table, and undefined for a missing entry
TierInputs == {Num(0), Num(1), Num(3), Num(5), Undefined}

\* lines 174-184 and the parameters entry of server.addTool, for a tool whose
\* inputSchema is the schema object ref and whose tokenId is tid
Augment(ref, tid) ==
    LET passed == parameters(schemas, ref, tid, zod) IN
    /\ Len(augmented) < MaxAugment
    /\ schemas' = passed.heap
    /\ augmented' = Append(augmented, [tokenId |-> tid, inputSchema |-> ref,
                                       parameters |-> passed.ref])
    /\ UNCHANGED <<server, tools, tokenReq, env, loadEnv, registered, calls, zod,
                   fetch, trend, proc>>

NextSchema ==
    \E ref \in DOMAIN schemas, tid \in TierInputs : Augment(ref, tid)

InitSchema ==
    \E envValue \in EnvValues, shape \in ZodShapes, schema \in SchemaInputs :
        /\ Loaded("protected-server.js", nubilaTools, TOKEN_REQUIREMENTS, envValue)
        /\ zod = shape
        /\ schemas = <<schema>>
        /\ augmented = <<>>
        /\ NoToolRuns

SpecSchema == InitSchema /\ [][NextSchema]_vars

(***************************************************************************)
(* The weather tools: makeNubilaRequest and getForecast.handler            *)
(***************************************************************************)
\* `${value}`
Template(v) ==
    CASE v.k = "str" -> v.raw
      [] v.k = "num" -> ToString(v.n)
      [] v.k = "undefined" -> "undefined"
      [] v.k = "null" -> "null"
      [] OTHER -> "[object Object]"

\* o.name: a TypeError when o is null or undefined
Read(o, name) ==
    IF o.k \in {"undefined", "null"}
    THEN Throw(Error(Str("Cannot read properties of " \o Template(o)
                             \o " (reading '" \o name \o "')")))
    ELSE Return(Get(o, name))

\* makeNubilaRequest, given what nubilaApi.get(endpoint, { params }) settled
\* with: a response, or the error axios rejected with
makeNubilaRequest(settled) ==
    IF settled.k = "return" THEN Return(Get(settled.v, "data"))
    ELSE LET error == settled.e
             response == Get(error, "response")
             message == Read(Get(response, "data"), "message")
         IN  IF Truthy(response)
             THEN IF message.k = "throw" THEN message
                  ELSE Throw(Error(Str("Nubila API Error: "
                           \o Template(OrElse(message.v, Get(response, "statusText"))))))
             ELSE IF Truthy(Get(error, "request"))
             THEN Throw(Error(Str("No response from Nubila API")))
             ELSE Throw(Error(Str("Request failed: " \o Template(Get(error, "message")))))

\* array.slice(0, n)
Slice(s, n) == SubSeq(s, 1, IF n < Len(s) THEN n ELSE Len(s))

\* units === 'F' ? `${((t * 9/5) + 32).toFixed(1)}°F` : `${t}°C`, for a whole t
FormatTemperature(t, units) ==
    IF units = "F"
    THEN IF t.k = "num"
         THEN ToString((18 * t.n + 320) \div 10) \o "." \o ToString((18 * t.n + 320) % 10) \o "°F"
         ELSE "NaN°F"
    ELSE Template(t) \o "°C"

\* the object the handler makes of one forecast entry (time, temperature and
\* condition; the other fields are formatted like temperature)
FormatEntry(item, units) ==
    Obj([time |-> OrElse(Get(item, "timestamp"),
                         Str("now+" \o Template(Get(item, "hour")) \o "h")),
         temperature |-> Str(FormatTemperature(Get(item, "temperature"), units)),
         condition |-> Get(item, "condition")])

\* getForecast.handler({ latitude, longitude, hours, units }), given the
\* outcome of its makeNubilaRequest (generated_at, a clock reading, is left out)
getForecastHandler(requested, hours, units) ==
    LET forecastData == requested.v
        nested == Read(forecastData, "data")
        forecastArray ==
            IF IsArray(forecastData) THEN forecastData
            ELSE OrElse(nested.v, OrElse(Get(forecastData, "forecast"),
                                         OrElse(Get(forecastData, "items"), Arr(<<>>))))
        limitedForecast ==
            Slice(IF IsArray(forecastArray) THEN forecastArray.s ELSE <<>>, hours)
        body ==
            IF requested.k = "throw" THEN requested
            ELSE IF ~IsArray(forecastData) /\ nested.k = "throw" THEN nested
            ELSE Return(Obj(
                   [location |-> Obj([name |->
                        OrElse(Get(First(Arr(limitedForecast)), "location_name"),
                               OrElse(Get(forecastData, "location_name"),
                                      Str("Unknown Location")))]),
                    forecast_hours |-> Num(hours),
                    forecast |-> Arr([i \in DOMAIN limitedForecast |->
                                        FormatEntry(limitedForecast[i], units)])]))
    IN  IF body.k = "throw"
        THEN Throw(Error(Str("Failed to get forecast: " \o Template(Get(body.e, "message")))))
        ELSE body

\* the i-th hourly entry of the provider's forecast
ForecastEntry(i) ==
    Obj([hour |-> Num(i), temperature |-> Num(20 + i), condition |-> Str("clear")])

\* the provider's forecast of n entries
ForecastEntries(n) == [i \in 1..n |-> ForecastEntry(i)]

\* response bodies of the provider: the forecast as an array of every length,
\* nested under data, forecast or items, and bodies that hold no array
UpstreamPayloads ==
    {Arr(ForecastEntries(n)) : n \in 0..MaxEntries}
    \cup {Obj([data |-> Arr(ForecastEntries(MaxEntries))]),
          Obj([forecast |-> Arr(ForecastEntries(MaxEntries))]),
          Obj([items |-> Arr(ForecastEntries(MaxEntries))]),
          Obj([data |-> Obj([ok |-> Str("no")])]),
          Obj([location_name |-> Str("Oslo")]),
          Str(""),
          Null}

\* the errors axios rejects with: an error response (with a message, without
\* one, with an empty body, with the body null), no response, no request
UpstreamErrors ==
    {Obj([message |-> Str("Request failed with status code 429"),
          request |-> EmptyObj,
          response |-> Obj([statusText |-> Str("Too Many Requests"), data |-> body])]) :
        body \in {Obj([message |-> Str("rate limited")]), EmptyObj, Str(""), Null}}
    \cup {Obj([message |-> Str("timeout of 10000ms exceeded"), request |-> EmptyObj]),
          Obj([message |-> Str("Invalid URL")])}

\* the handler of getForecast is called: it calls makeNubilaRequest, which
\* issues nubilaApi.get
GetForecast(hours, units) ==
    /\ fetch.pc = "idle"
    /\ fetch' = [fetch EXCEPT !.pc = "requested", !.hours = hours, !.units = units,
                              !.requests = @ + 1]
    /\ UNCHANGED <<server, tools, tokenReq, env, loadEnv, registered, calls, zod,
                   schemas, augmented, trend, proc>>

\* nubilaApi.get settled; makeNubilaRequest and the handler run to their end
UpstreamSettles(settled) ==
    LET requested == makeNubilaRequest(settled) IN
    /\ fetch.pc = "requested"
    /\ fetch' = [fetch EXCEPT !.pc = "done", !.settled = settled,
                              !.requestOutcome = requested,
                              !.outcome = getForecastHandler(requested, fetch.hours, fetch.units)]
    /\ UNCHANGED <<server, tools, tokenReq, env, loadEnv, registered, calls, zod,
                   schemas, augmented, trend, proc>>

\* the provider answers with a body
UpstreamResponds(data) == UpstreamSettles(Return(Obj([status |-> Num(200), data |-> data])))

\* the request fails
UpstreamFails(error) == UpstreamSettles(Throw(error))

NextForecast ==
    \/ \E hours \in 1..MaxHours, units \in {"C", "F"} : GetForecast(hours, units)
    \/ \E data \in UpstreamPayloads : UpstreamResponds(data)
    \/ \E error \in UpstreamErrors : UpstreamFails(error)

InitForecast ==
    \E envValue \in EnvValues :
        /\ Loaded("protected-server.js", nubilaTools, TOKEN_REQUIREMENTS, envValue)
        /\ NoSchemas
        /\ NoToolRuns

SpecForecast == InitForecast /\ [][NextForecast]_vars

(***************************************************************************)
(* The server process: main, the shutdown signals, process.exit            *)
(***************************************************************************)
\* the entry files whose process is followed: one without signal handlers,
\* one with handlers for SIGINT and SIGTERM
ProcessFiles == {"protected-server.js", "unprotected-server.js"}
Signals == {"SIGINT", "SIGTERM"}

ProcessFrame ==
    UNCHANGED <<server, tools, tokenReq, env, loadEnv, registered, calls, zod,
                schemas, augmented, fetch, trend>>

\* the process runs: process.exit has not been called and no signal killed it
Running == proc.file \in ProcessFiles /\ proc.exit = Undefined

\* await server.start() resolves; main logs and returns
StartResolves ==
    /\ Running /\ proc.start = "pending"
    /\ proc' = [proc EXCEPT !.start = "running"]
    /\ ProcessFrame

\* await server.start() rejects: main().catch (the catch inside main in
\* unprotected-server.js) logs and calls process.exit(1)
StartRejects ==
    /\ Running /\ proc.start = "pending"
    /\ proc' = [proc EXCEPT !.start = "failed", !.exit = Num(1)]
    /\ ProcessFrame

\* a variant of Signal whose handler calls process.exit(0) without awaiting mcp.stop()
Signal_ExitsAtOnce(sig) ==
    /\ Running /\ Len(proc.handlers) < MaxSignals
    /\ proc' = IF proc.file = "unprotected-server.js"
               THEN [proc EXCEPT !.handlers = Append(@, [signal |-> sig, pc |-> "exited",
                                                         stopped |-> FALSE]),
                                 !.stopCalls = @ + 1, !.exit = Num(0)]
               ELSE [proc EXCEPT !.exit = Str(sig)]
    /\ ProcessFrame

\* the process receives SIGINT or SIGTERM: process.on(sig, async () => { log;
\* await mcp.stop(); ... }) runs up to its await; a file that registers no
\* handler is terminated by the signal
Signal(sig) ==
    /\ Running /\ Len(proc.handlers) < MaxSignals
    /\ proc' = IF proc.file = "unprotected-server.js"
               THEN [proc EXCEPT !.handlers = Append(@, [signal |-> sig, pc |-> "stopping",
                                                         stopped |-> FALSE]),
                                 !.stopCalls = @ + 1]
               ELSE [proc EXCEPT !.exit = Str(sig)]
    /\ ProcessFrame

\* mcp.stop() resolves for the i-th handler, which goes on to process.exit(0)
StopCompletes(i) ==
    /\ Running /\ i \in DOMAIN proc.handlers /\ proc.handlers[i].pc = "stopping"
    /\ proc' = [proc EXCEPT !.handlers[i].pc = "exited", !.handlers[i].stopped = TRUE,
                            !.exit = Num(0)]
    /\ ProcessFrame

\* mcp.stop() rejects for the i-th handler: the listener's promise rejects with
\* nobody to catch it; the runtime either ends the process with code 1 or
\* only warns, depending on its unhandled-rejection mode
StopRejects(i, fatal) ==
    /\ Running /\ i \in DOMAIN proc.handlers /\ proc.handlers[i].pc = "stopping"
    /\ proc' = [proc EXCEPT !.handlers[i].pc = "rejected",
                            !.exit = IF fatal THEN Num(1) ELSE @]
    /\ ProcessFrame

NextProcess ==
    \/ StartResolves
    \/ StartRejects
    \/ \E sig \in Signals : Signal(sig)
    \/ \E i \in 1..MaxSignals : StopCompletes(i)
    \/ \E i \in 1..MaxSignals, fatal \in BOOLEAN : StopRejects(i, fatal)

\* a process of either file has loaded its module and called main()
InitProcess ==
    \E envValue \in EnvValues, file \in ProcessFiles :
        /\ Loaded("protected-server.js", nubilaTools, TOKEN_REQUIREMENTS, envValue)
        /\ NoSchemas
        /\ fetch = IdleFetch
        /\ trend = NoTrend
        /\ proc = [NoProcess EXCEPT !.file = file]

SpecProcess == InitProcess /\ [][NextProcess]_vars

(***************************************************************************)
(* IEEE-754 double arithmetic, as far as determineTrend uses it: a sum of  *)
(* integer temperatures divided by 3, and the difference of two such       *)
(* quotients. A magnitude is kept exactly, as its bits in units of 2^-54   *)
(* (the spacing of the doubles next to 1/3); every result is rounded to    *)
(* 53 significant bits, ties to even.                                      *)
(***************************************************************************)
FloatUnit == 54
FloatBits == 0..62

RECURSIVE Pow2(_)
Pow2(k) == IF k = 0 THEN 1 ELSE 2 * Pow2(k - 1)

\* the bits of n * 2^FloatUnit, for 0 <= n < 2^8
NatBits(n) ==
    [i \in FloatBits |->
        IF i >= FloatUnit /\ i - FloatUnit < 8 THEN (n \div Pow2(i - FloatUnit)) % 2 ELSE 0]

ZeroBits == [i \in FloatBits |-> 0]

\* position of the leading 1 (-1 for zero)
TopBit(bits) ==
    IF bits = ZeroBits THEN -1
    ELSE CHOOSE i \in FloatBits : bits[i] = 1 /\ \A j \in FloatBits : j > i => bits[j] = 0

\* a < b, as magnitudes
BitsLess(a, b) ==
    \E i \in FloatBits : a[i] < b[i] /\ \A j \in FloatBits : j > i => a[j] = b[j]

\* bits + 2^p
AddBit(bits, p) ==
    LET z == CHOOSE i \in FloatBits :
                 i >= p /\ bits[i] = 0 /\ \A j \in FloatBits : (j >= p /\ j < i) => bits[j] = 1
    IN  [i \in FloatBits |-> IF i < p \/ i > z THEN bits[i] ELSE IF i = z THEN 1 ELSE 0]

\* an exact magnitude bits + rem/3 units, rounded to 53 significant bits
RoundBits(bits, rem) ==
    LET drop == TopBit(bits) - 52 IN
    IF drop < 0 THEN bits
    ELSE LET kept == [i \in FloatBits |-> IF i >= drop THEN bits[i] ELSE 0]
             roundUp ==
                 IF drop = 0 THEN rem = 2
                 ELSE /\ bits[drop - 1] = 1
                      /\ \/ rem # 0
                         \/ \E j \in FloatBits : j < drop - 1 /\ bits[j] = 1
                         \/ bits[drop] = 1
         IN  IF roundUp THEN AddBit(kept, drop) ELSE kept

\* long division by 3 of n * 2^FloatUnit: the remainder left after the bits
\* above i, that is floor(n * 2^FloatUnit / 2^(i+1)) mod 3 (2^k mod 3 is 1 for
\* even k and 2 for odd k)
RemAbove(n, i) ==
    IF i + 1 > FloatUnit THEN (n \div Pow2(i + 1 - FloatUnit)) % 3
    ELSE ((n % 3) * (IF (FloatUnit - i - 1) % 2 = 0 THEN 1 ELSE 2)) % 3

\* the carry of a + b and the borrow of a - b into bit i
CarryInto(a, b, i) ==
    IF \E j \in FloatBits :
           /\ j < i /\ a[j] = 1 /\ b[j] = 1
           /\ \A k \in FloatBits : (j < k /\ k < i) => a[k] + b[k] = 1
    THEN 1 ELSE 0

BorrowInto(a, b, i) ==
    IF \E j \in FloatBits :
           /\ j < i /\ a[j] < b[j]
           /\ \A k \in FloatBits : (j < k /\ k < i) => a[k] = b[k]
    THEN 1 ELSE 0

BitsAdd(a, b) == [i \in FloatBits |-> (a[i] + b[i] + CarryInto(a, b, i)) % 2]
BitsSub(a, b) == [i \in FloatBits |-> (a[i] - b[i] - BorrowInto(a, b, i) + 2) % 2]

\* the double nearest to sum / 3, for an integer sum
FloatDiv3(sum) ==
    LET n == IF sum < 0 THEN -sum ELSE sum
        bits == NatBits(n)
        quotient == [i \in FloatBits |-> (2 * RemAbove(n, i) + bits[i]) \div 3]
    IN  [neg |-> sum < 0, m |-> RoundBits(quotient, (2 * RemAbove(n, 0) + bits[0]) % 3)]

\* the double nearest to x - y
FloatSub(x, y) ==
    IF x.neg # y.neg
    THEN [neg |-> x.neg, m |-> RoundBits(BitsAdd(x.m, y.m), 0)]
    ELSE IF BitsLess(x.m, y.m)
    THEN [neg |-> ~x.neg, m |-> RoundBits(BitsSub(y.m, x.m), 0)]
    ELSE [neg |-> x.neg, m |-> RoundBits(BitsSub(x.m, y.m), 0)]

\* x > 3 and x < -3
FloatAbove3(x) == ~x.neg /\ BitsLess(NatBits(3), x.m)
FloatBelowMinus3(x) == x.neg /\ BitsLess(NatBits(3), x.m)

(***************************************************************************)
(* determineTrend                                                          *)
(***************************************************************************)
\* entries.reduce((sum, f) => sum + f.temperature, 0), for three entries with
\* whole temperatures
SumTemperature(entries) ==
    Get(entries[1], "temperature").n + Get(entries[2], "temperature").n
        + Get(entries[3], "temperature").n

\* function determineTrend(forecast); firstHours and lastHours hold three
\* entries each, so both divisions are by 3
determineTrend(forecast) ==
    IF ~Truthy(forecast) \/ Len(forecast.s) < 6 THEN "stable"
    ELSE LET firstHours == SubSeq(forecast.s, 1, 3)
             lastHours == SubSeq(forecast.s, Len(forecast.s) - 2, Len(forecast.s))
             avgTempFirst == FloatDiv3(SumTemperature(firstHours))
             avgTempLast == FloatDiv3(SumTemperature(lastHours))
             tempDiff == FloatSub(avgTempLast, avgTempFirst)
         IN  IF FloatAbove3(tempDiff) THEN "warming"
             ELSE IF FloatBelowMinus3(tempDiff) THEN "cooling"
             ELSE "stable"

\* temperatures of the forecasts under study
TrendTemperatures == {2, 3, 7}

\* all sequences of n temperatures
RECURSIVE TemperatureSeqs(_)
TemperatureSeqs(n) ==
    IF n = 0 THEN {<<>>}
    ELSE {Append(s, t) : s \in TemperatureSeqs(n - 1), t \in TrendTemperatures}

\* a missing forecast, and the forecasts of every length up to MaxTrendEntries
TrendForecasts ==
    {Undefined, Null}
    \cup {Arr([i \in DOMAIN s |-> Obj([temperature |-> Num(s[i])])]) :
             s \in UNION {TemperatureSeqs(n) : n \in 0..MaxTrendEntries}}

\* determineTrend is applied to the forecast
DetermineTrend ==
    /\ ~trend.applied
    /\ trend' = [trend EXCEPT !.applied = TRUE, !.result = determineTrend(trend.forecast)]
    /\ UNCHANGED <<server, tools, tokenReq, env, loadEnv, registered, calls, zod,
                   schemas, augmented, fetch, proc>>

NextTrend == DetermineTrend

InitTrend ==
    \E forecast \in TrendForecasts :
        /\ Loaded("protected-server.js", nubilaTools, TOKEN_REQUIREMENTS, "false")
        /\ NoSchemas
        /\ fetch = IdleFetch
        /\ proc = NoProcess
        /\ trend = [NoTrend EXCEPT !.forecast = forecast]

SpecTrend == InitTrend /\ [][NextTrend]_vars

(***************************************************************************)
(* Vocabulary of the properties                                            *)
(***************************************************************************)
Started(c) == calls[c].pc # "idle"
Done(c) == calls[c].pc = "done"
\* the tier the registration loop found for the called operation
TierOf(c) == registered[calls[c].op].tokenId
PositiveTier(c) == TierOf(c).k = "num" /\ TierOf(c).n > 0
\* the flag the registration loop captured for the called operation
DemoOn(c) == registered[calls[c].op].DEMO_MODE
\* a call of an operation of tier > 0 with Demonstration Mode off
GatedCall(c) == Started(c) /\ PositiveTier(c) /\ ~DemoOn(c)
\* a call of an operation of tier > 0 under Demonstration Mode
DemoCall(c) == Started(c) /\ PositiveTier(c) /\ DemoOn(c)
\* a call of an operation of tier 0
FreeCall(c) == Started(c) /\ TierOf(c) = Num(0)
ProtectedServer == server = "protected-server.js"

\* v has the shape { content: [{ type: "text", text: <string> }] }
IsEnvelope(v) ==
    /\ v.k = "obj" /\ DOMAIN v.f = {"content"}
    /\ v.f.content.k = "arr" /\ Len(v.f.content.s) = 1
    /\ LET item == v.f.content.s[1] IN
       /\ item.k = "obj" /\ DOMAIN item.f = {"type", "text"}
       /\ item.f.type = Str("text")
       /\ IsString(item.f.text)
TextOf(v) == v.f.content.s[1].f.text

(***************************************************************************)
(* C1: for a gated call (tier > 0, Demonstration Mode off) of               *)
(* src/protected-server.js the handler is invoked only from inside the      *)
(* inner callback: never more often than the callback, so not at all when   *)
(* the Checker does not invoke the callback.                                *)
(***************************************************************************)
C1_HandlerOnlyInsideCallback ==
    \A c \in CallIds :
        (ProtectedServer /\ GatedCall(c)) =>
            /\ calls[c].handlerCalls <= calls[c].cbCalls
            /\ (calls[c].cbCalls = 0 => calls[c].handlerCalls = 0)

\* a gated call that the Checker denied without invoking the callback
C1_Witness ==
    \E c \in CallIds :
        /\ ProtectedServer /\ GatedCall(c) /\ Done(c)
        /\ calls[c].wrappedCalls = 1 /\ calls[c].cbCalls = 0
        /\ calls[c].handlerCalls = 0
        /\ calls[c].outcome.k = "throw"

\* the response carries a truthy top-level error
HasTopLevelError(response) ==
    response.k = "obj" /\ "error" \in DOMAIN response.f /\ Truthy(response.f.error)
\* the response is an Envelope whose first content text is JSON text of a
\* value with a truthy error property
HasNestedError(response) ==
    /\ response.k = "obj" /\ "content" \in DOMAIN response.f
    /\ response.f.content.k = "arr" /\ Len(response.f.content.s) > 0
    /\ LET item == response.f.content.s[1] IN
       /\ item.k = "obj" /\ "text" \in DOMAIN item.f
       /\ item.f.text.k = "json"
       /\ item.f.text.v.k = "obj" /\ "error" \in DOMAIN item.f.text.v.f
       /\ Truthy(item.f.text.v.f.error)
\* the Checker resolved to a denial without invoking the inner callback
DeniedByResponse(c) ==
    /\ calls[c].responded /\ calls[c].cbCalls = 0
    /\ (HasTopLevelError(calls[c].response) \/ HasNestedError(calls[c].response))

(***************************************************************************)
(* C2: whenever the Checker signals a denial for a gated call of            *)
(* src/protected-server.js (a top-level error, or an Envelope whose first   *)
(* content text parses to a value with an error indicator), execute ends in *)
(* a thrown failure and returns no value.                                   *)
(***************************************************************************)
C2_DenialIsThrown ==
    \A c \in CallIds :
        (ProtectedServer /\ GatedCall(c) /\ Done(c) /\ DeniedByResponse(c)) =>
            calls[c].outcome.k = "throw"

(***************************************************************************)
(* C3: given an Envelope whose first content text parses to                 *)
(* {error: {message: "X"}}, the response handling of                        *)
(* src/protected-server.js throws a failure whose message is "X".           *)
(***************************************************************************)
C3_NestedErrorThrowsMessage ==
    \A c \in CallIds :
        (/\ ProtectedServer /\ GatedCall(c) /\ Done(c) /\ calls[c].responded
         /\ HasNestedError(calls[c].response)
         /\ Get(Get(JSONparse(TextOf(calls[c].response)).v, "error"), "message") = Str("X")) =>
            /\ calls[c].outcome.k = "throw"
            /\ calls[c].outcome.e.message = Str("X")

(***************************************************************************)
(* C4: for an operation of tier 0 of src/protected-server.js and any        *)
(* arguments, execute invokes the handler exactly once with the original    *)
(* arguments, never calls radius.protect or a Checker-wrapped function, and *)
(* what it returns is an Envelope with one text item: the handler's result  *)
(* itself when it is a string, its JSON text otherwise.                     *)
(***************************************************************************)
C4_FreeTierDirect ==
    \A c \in CallIds :
        (ProtectedServer /\ FreeCall(c)) =>
            /\ calls[c].handlerCalls = 1
            /\ calls[c].handlerArgs = calls[c].args
            /\ calls[c].protectCalls = 0 /\ calls[c].wrappedCalls = 0
            /\ calls[c].cbCalls = 0
            /\ (Done(c) /\ calls[c].handlerResult.k = "return") =>
                  /\ calls[c].outcome.k = "return"
                  /\ IsEnvelope(calls[c].outcome.v)
                  /\ LET result == calls[c].handlerResult.v
                         text == TextOf(calls[c].outcome.v) IN
                     IF result.k \in {"str", "json"}
                     THEN text = result
                     ELSE JSONparse(text) = [ok |-> TRUE, v |-> result]

\* a finished call of ping that carried a proof and whose handler returned an object
C4_Witness ==
    \E c \in CallIds :
        /\ ProtectedServer /\ FreeCall(c) /\ Done(c)
        /\ calls[c].op = "ping"
        /\ HasKey(calls[c].args, RESERVED)
        /\ HasKey(calls[c].handlerArgs, RESERVED)
        /\ calls[c].handlerResult = Return(Obj([status |-> Str("ok")]))
        /\ calls[c].outcome.k = "return"

(***************************************************************************)
(* C5: for an operation of tier > 0 of src/protected-server.js under        *)
(* Demonstration Mode and any arguments, the Checker is never invoked, the  *)
(* handler is invoked with arguments without __evmauth, and a handler that  *)
(* returns normally yields an Envelope.                                     *)
(***************************************************************************)
C5_DemoBypass ==
    \A c \in CallIds :
        (ProtectedServer /\ DemoCall(c)) =>
            /\ calls[c].protectCalls = 0 /\ calls[c].wrappedCalls = 0
            /\ calls[c].cbCalls = 0
            /\ calls[c].handlerCalls = 1
            /\ ~HasKey(calls[c].handlerArgs, RESERVED)
            /\ (Done(c) /\ calls[c].handlerResult.k = "return") =>
                  /\ calls[c].outcome.k = "return"
                  /\ IsEnvelope(calls[c].outcome.v)

\* a finished demo call that carried an unparseable proof
C5_Witness ==
    \E c \in CallIds :
        /\ ProtectedServer /\ DemoCall(c) /\ Done(c)
        /\ Get(calls[c].args, RESERVED) = GarbageProof
        /\ ~HasKey(calls[c].handlerArgs, RESERVED)
        /\ calls[c].outcome.k = "return"

C7_CheckerSeesOriginalArgs ==
    \A c \in CallIds :
        (ProtectedServer /\ GatedCall(c)) =>
            /\ calls[c].wrappedCalls = 1
            /\ DOMAIN calls[c].request.f = {"method", "params"}
            /\ Get(calls[c].request, "method") = Str("tools/call")
            /\ DOMAIN Get(calls[c].request, "params").f = {"name", "arguments"}
            /\ Get(Get(calls[c].request, "params"), "name") = Str(calls[c].op)
            /\ Get(Get(calls[c].request, "params"), "arguments") = calls[c].args
            /\ HasKey(calls[c].args, RESERVED) =>
                  Get(Get(Get(calls[c].request, "params"), "arguments"), RESERVED)
                      = Get(calls[c].args, RESERVED)

\* a gated call whose proof text does not parse: the Checker got that text
C7_Witness ==
    \E c \in CallIds :
        /\ ProtectedServer /\ GatedCall(c)
        /\ Get(calls[c].args, RESERVED) = GarbageProof
        /\ JSONparse(Get(calls[c].args, RESERVED)).ok = FALSE
        /\ calls[c].wrappedCalls = 1
        /\ Get(Get(Get(calls[c].request, "params"), "arguments"), RESERVED) = GarbageProof

C9_UnregisteredIsTierZero ==
    \A c \in CallIds :
        (ProtectedServer /\ Started(c) /\ calls[c].op \notin DOMAIN tokenReq) =>
            /\ calls[c].protectCalls = 0 /\ calls[c].wrappedCalls = 0
            /\ calls[c].handlerCalls = 1
            /\ calls[c].handlerArgs = calls[c].args
            /\ registered[calls[c].op].parameters = inputSchema(calls[c].op)
            /\ registered[calls[c].op].description.requires = Undefined

(***************************************************************************)
(* C10: the Tier Registry is total and exact over the registered            *)
(* operations (every key of nubilaTools has an entry and every entry is a   *)
(* key of nubilaTools), with ping = 0, getCurrentWeather = 1,               *)
(* getForecast = 3, getDetailedWeatherAnalysis = 5, and no step of any call *)
(* changes it.                                                              *)
(***************************************************************************)
C10_RegistryExactAndFixed ==
    /\ [](/\ DOMAIN tokenReq = tools
          /\ tools = {"ping", "getCurrentWeather", "getForecast", "getDetailedWeatherAnalysis"}
          /\ tokenReq["ping"] = 0
          /\ tokenReq["getCurrentWeather"] = 1
          /\ tokenReq["getForecast"] = 3
          /\ tokenReq["getDetailedWeatherAnalysis"] = 5
          /\ \A t \in tools : registered[t].tokenId = Num(tokenReq[t]))
    /\ [][tokenReq' = tokenReq /\ tools' = tools]_vars

\* an authorized call of the tier 5 operation has finished: the Checker was
\* asked for tier 5
C10_Witness ==
    \E c \in CallIds :
        /\ Done(c) /\ calls[c].op = "getDetailedWeatherAnalysis"
        /\ calls[c].protectTier = Num(5)
        /\ calls[c].cbCalls = 1

(***************************************************************************)
(* C11: every value execute of src/protected-server.js returns without      *)
(* throwing, on any path and for any Checker response, has the shape        *)
(* {content: [{type: "text", text: <string>}]}.                             *)
(***************************************************************************)
C11_ReturnsAreEnvelopes ==
    \A c \in CallIds :
        (ProtectedServer /\ Done(c) /\ calls[c].outcome.k = "return") =>
            IsEnvelope(calls[c].outcome.v)

(***************************************************************************)
(* C12: when the Checker-wrapped function returns an object without a       *)
(* content array and with a truthy top-level error, execute of              *)
(* src/protected-server.js throws an Error whose message is error.message,  *)
(* or "Authentication failed" when error.message is absent or empty.        *)
(***************************************************************************)
C12_TopLevelErrorThrown ==
    \A c \in CallIds :
        (/\ ProtectedServer /\ GatedCall(c) /\ Done(c) /\ calls[c].responded
         /\ HasTopLevelError(calls[c].response)
         /\ "content" \notin DOMAIN calls[c].response.f) =>
            /\ calls[c].outcome.k = "throw"
            /\ calls[c].outcome.e.k = "Error"
            /\ LET error == calls[c].response.f.error
                   hasMessage == /\ error.k = "obj" /\ "message" \in DOMAIN error.f
                                 /\ error.f.message # Str("")
               IN  calls[c].outcome.e.message =
                       IF hasMessage THEN error.f.message ELSE Str("Authentication failed")

\* a denial whose error.message is the empty string
C12_Witness ==
    \E c \in CallIds :
        /\ ProtectedServer /\ GatedCall(c) /\ Done(c) /\ calls[c].responded
        /\ calls[c].response = Obj([error |-> Obj([message |-> Str("")])])
        /\ calls[c].outcome = Throw(Error(Str("Authentication failed")))

\* the response has a content array whose first item is an object with a text
HasFirstText(response) ==
    /\ response.k = "obj" /\ "content" \in DOMAIN response.f
    /\ response.f.content.k = "arr" /\ Len(response.f.content.s) > 0
    /\ response.f.content.s[1].k = "obj"
    /\ "text" \in DOMAIN response.f.content.s[1].f

(***************************************************************************)
(* C13: when the Checker-wrapped function returns an Envelope whose first   *)
(* content text is plain text, is not JSON, or parses to a value without an *)
(* error indicator, execute of src/protected-server.js returns that same    *)
(* Envelope, not re-wrapped and with the same content.                      *)
(***************************************************************************)
C13_EnvelopePassesThrough ==
    \A c \in CallIds :
        (/\ ProtectedServer /\ GatedCall(c) /\ Done(c) /\ calls[c].responded
         /\ HasFirstText(calls[c].response)
         /\ ~HasNestedError(calls[c].response)) =>
            calls[c].outcome = Return(calls[c].response)

\* the Checker answered with an Envelope holding plain text, which came back as it was
C13_Witness ==
    \E c \in CallIds :
        /\ ProtectedServer /\ GatedCall(c) /\ Done(c) /\ calls[c].responded
        /\ HasFirstText(calls[c].response)
        /\ TextOf(calls[c].response) = Str("plain text")
        /\ ~JSONparse(TextOf(calls[c].response)).ok
        /\ calls[c].outcome.k = "return"
        /\ TextOf(calls[c].outcome.v) = Str("plain text")

(***************************************************************************)
(* C14: a failure thrown by the Checker-wrapped function, or by the handler *)
(* inside the inner callback, reaches the caller of execute of              *)
(* src/protected-server.js as a thrown failure with the original message;   *)
(* execute neither returns a value instead nor replaces the message.        *)
(***************************************************************************)
C14_FailuresPropagate ==
    \A c \in CallIds :
        (ProtectedServer /\ GatedCall(c)) =>
            /\ (Done(c) /\ calls[c].rejection.k = "Error") =>
                  /\ calls[c].outcome.k = "throw"
                  /\ calls[c].outcome.e.message = calls[c].rejection.message
            /\ calls[c].handlerResult.k = "throw" =>
                  /\ calls[c].cbResult = calls[c].handlerResult
                  /\ Done(c) =>
                        /\ calls[c].outcome.k = "throw"
                        /\ calls[c].outcome.e.message = calls[c].handlerResult.e.message

\* the handler of an authorized call failed and execute threw that failure
C14_Witness ==
    \E c \in CallIds :
        /\ ProtectedServer /\ GatedCall(c) /\ Done(c)
        /\ calls[c].cbCalls = 1
        /\ calls[c].handlerResult.k = "throw"
        /\ calls[c].outcome = calls[c].handlerResult

(***************************************************************************)
(* C15: a proof that cannot be parsed never aborts or denies a gated call   *)
(* by itself: for a tier > 0 operation of src/protected-server.js with      *)
(* Demonstration Mode off and __evmauth set to text that is not JSON,       *)
(* execute still invokes the Checker-wrapped function exactly once, and the *)
(* outcome of the call is the one the Checker produces.                     *)
(***************************************************************************)
C15_UnparsedProofGoesToChecker ==
    \A c \in CallIds :
        (/\ ProtectedServer /\ GatedCall(c)
         /\ IsString(Get(calls[c].args, RESERVED))
         /\ ~JSONparse(Get(calls[c].args, RESERVED)).ok) =>
            /\ calls[c].protectCalls = 1
            /\ calls[c].wrappedCalls = 1
            /\ calls[c].proofLog = Str("proof not parsed")
            /\ Done(c) =>
                  \/ /\ calls[c].rejection.k = "Error"
                     /\ calls[c].outcome = Throw(calls[c].rejection)
                  \/ /\ calls[c].responded
                     /\ \/ calls[c].outcome = Return(calls[c].response)
                        \/ /\ calls[c].outcome.k = "throw"
                           /\ HasTopLevelError(calls[c].response)

\* a call with an unparseable proof that the Checker authorized and that returned
C15_Witness ==
    \E c \in CallIds :
        /\ ProtectedServer /\ GatedCall(c) /\ Done(c)
        /\ Get(calls[c].args, RESERVED) = GarbageProof
        /\ calls[c].wrappedCalls = 1 /\ calls[c].cbCalls = 1
        /\ calls[c].outcome.k = "return"

\* the i-th augmentation was made for a tier > 0
AugmentedForTier(i) == augmented[i].tokenId.k = "num" /\ augmented[i].tokenId.n > 0

\* how many times a schema declares a field
Declarations(schema, key) == Cardinality({i \in DOMAIN schema : schema[i] = key})

(***************************************************************************)
(* C16: schema augmentation is idempotent: for any schema and any tier     *)
(* t > 0, augmenting the already augmented schema yields a schema with the *)
(* same set of fields as augmenting once, and the __evmauth field is       *)
(* declared exactly once.                                                  *)
(***************************************************************************)
C16_AugmentIdempotent ==
    \A i \in DOMAIN augmented :
        AugmentedForTier(i) =>
            /\ Declarations(schemas[augmented[i].parameters], RESERVED) = 1
            /\ \A j \in DOMAIN augmented :
                  (/\ i < j /\ AugmentedForTier(j)
                   /\ augmented[j].inputSchema = augmented[i].parameters) =>
                      /\ Fields(schemas[augmented[j].parameters])
                             = Fields(schemas[augmented[i].parameters])
                      /\ Declarations(schemas[augmented[j].parameters], RESERVED) = 1

\* a schema without the proof field was augmented, and the result augmented again
C16_Witness ==
    \E i, j \in DOMAIN augmented :
        /\ i < j /\ AugmentedForTier(i) /\ AugmentedForTier(j)
        /\ RESERVED \notin Fields(schemas[augmented[i].inputSchema])
        /\ augmented[j].inputSchema = augmented[i].parameters
        /\ augmented[i].parameters # augmented[i].inputSchema
        /\ Fields(schemas[augmented[j].parameters]) = Fields(schemas[augmented[i].parameters])

(***************************************************************************)
(* C17: schema augmentation leaves its input untouched: for tier 0 the     *)
(* schema passed to addTool is the tool's inputSchema itself, and no       *)
(* existing schema object ever changes its fields (the added __evmauth     *)
(* field exists only in the new schema passed to addTool).                 *)
(***************************************************************************)
C17_InputSchemaUntouched ==
    /\ [](\A i \in DOMAIN augmented :
             augmented[i].tokenId = Num(0) =>
                 augmented[i].parameters = augmented[i].inputSchema)
    /\ [][\A ref \in DOMAIN schemas : schemas'[ref] = schemas[ref]]_vars

\* a schema without the proof field was augmented for a tier > 0: the field is
\* in the schema passed to addTool and not in the tool's inputSchema
C17_Witness ==
    \E i \in DOMAIN augmented :
        /\ AugmentedForTier(i)
        /\ augmented[i].parameters # augmented[i].inputSchema
        /\ RESERVED \notin Fields(schemas[augmented[i].inputSchema])
        /\ RESERVED \in Fields(schemas[augmented[i].parameters])

\* the bag the c-th call stripped before it invoked the handler: the call's
\* args on the demo branch, request.params?.arguments || {} in the inner callback
StrippedBag(c) ==
    IF calls[c].cbCalls > 0 THEN toolArgs(calls[c].cbRequest) ELSE calls[c].args

(***************************************************************************)
(* C18: proof-key stripping is idempotent and total: for any argument bag,  *)
(* stripping __evmauth ({...args} then delete) always succeeds, the result  *)
(* has no __evmauth key and keeps every other key with its value, and       *)
(* stripping the result again yields an equal bag.                          *)
(***************************************************************************)
C18_StripIdempotentTotal ==
    \A c \in CallIds :
        (/\ ProtectedServer /\ calls[c].handlerCalls > 0
         /\ (calls[c].cbCalls > 0 \/ DemoCall(c))) =>
            LET bag == StrippedBag(c)
                clean == calls[c].handlerArgs
            IN  /\ clean.k = "obj"
                /\ RESERVED \notin DOMAIN clean.f
                /\ bag.k = "obj" =>
                      /\ DOMAIN clean.f = DOMAIN bag.f \ {RESERVED}
                      /\ \A key \in DOMAIN clean.f : clean.f[key] = bag.f[key]
                /\ cleanArgs(clean) = clean

\* the inner callback stripped a bag that held a proof and another key
C18_Witness ==
    \E c \in CallIds :
        /\ ProtectedServer /\ GatedCall(c) /\ calls[c].cbCalls = 1
        /\ HasKey(StrippedBag(c), RESERVED)
        /\ HasKey(StrippedBag(c), "latitude")
        /\ calls[c].handlerCalls = 1
        /\ calls[c].handlerArgs = PlainArgs

(***************************************************************************)
(* C19: in the simple protected server variants (src/unnamed/part_002 and   *)
(* src/protected-server-simple.js), for getForecast (tier 3) with           *)
(* Demonstration Mode on and any arguments, the handler is invoked with the *)
(* __evmauth key stripped from its arguments and an Allowed Envelope is     *)
(* returned, even when no proof is supplied.                                *)
(***************************************************************************)
C19_SimpleDemoStrips ==
    \A c \in CallIds :
        (/\ server \in {"part_002", "protected-server-simple.js"}
         /\ DemoCall(c) /\ calls[c].op = "getForecast") =>
            /\ calls[c].handlerCalls = 1
            /\ ~HasKey(calls[c].handlerArgs, RESERVED)
            /\ (Done(c) /\ calls[c].handlerResult.k = "return") =>
                  /\ calls[c].outcome.k = "return"
                  /\ IsEnvelope(calls[c].outcome.v)

(***************************************************************************)
(* C20: the core never retries: in src/protected-server.js every gated call *)
(* invokes radius.protect once and the Checker-wrapped function exactly     *)
(* once, and no call on any path invokes the handler more than once,        *)
(* whether the Checker or the handler succeeds or fails.                    *)
(***************************************************************************)
C20_NeverRetries ==
    \A c \in CallIds :
        ProtectedServer =>
            /\ GatedCall(c) => (calls[c].protectCalls = 1 /\ calls[c].wrappedCalls = 1)
            /\ calls[c].cbCalls <= 1
            /\ calls[c].handlerCalls <= 1

\* a gated call that failed because the Checker itself rejected: it ended
\* after one call of the wrapped function, the handler never ran
C20_Witness ==
    \E c \in CallIds :
        /\ ProtectedServer /\ GatedCall(c) /\ Done(c)
        /\ calls[c].rejection \in CheckerFailures
        /\ calls[c].cbCalls = 0 /\ calls[c].handlerCalls = 0
        /\ calls[c].protectCalls = 1 /\ calls[c].wrappedCalls = 1
        /\ calls[c].outcome.k = "throw"

\* the record a call has when it runs alone with the inputs this call had:
\* its operation and arguments, what the Checker did with it and what its
\* handler settled with
Alone(call) ==
    LET s0 == StartCall(server, registered[call.op], call.envAtCall, call.op, call.args)
        s1 == IF call.cbCalls > 0 THEN RunCallback(s0, call.cbRequest) ELSE s0
        s2 == IF call.handlerResult.k = "pending" THEN s1
              ELSE AfterHandler(server, s1, call.handlerResult)
    IN  IF call.pc # "done" \/ s2.pc = "done" THEN s2
        ELSE IF s2.pc = "cbSettled" THEN AfterChecker(server, s2, s2.cbResult)
        ELSE IF call.responded THEN AfterChecker(server, s2, Return(call.response))
        ELSE AfterChecker(server, s2, Throw(call.rejection))

ApiErrorTexts == {"rate limited", "Too Many Requests"}

(***************************************************************************)
(* C22: makeNubilaRequest issues exactly one upstream request per call and, *)
(* when it fails, throws exactly one of three failures and never returns a  *)
(* value: "Nubila API Error: ..." when the provider answered with an error  *)
(* response, "No response from Nubila API" when a request was sent but no   *)
(* response arrived, "Request failed: ..." otherwise; on success it returns *)
(* the response data.                                                       *)
(***************************************************************************)
C22_ThreeFailures ==
    /\ fetch.pc # "idle" => fetch.requests = 1
    /\ fetch.pc = "done" =>
          IF fetch.settled.k = "return"
          THEN fetch.requestOutcome = Return(fetch.settled.v.f.data)
          ELSE /\ fetch.requestOutcome.k = "throw"
               /\ LET error == fetch.settled.e
                      message == fetch.requestOutcome.e.message
                  IN  IF HasKey(error, "response")
                      THEN message \in {Str("Nubila API Error: " \o t) : t \in ApiErrorTexts}
                      ELSE IF HasKey(error, "request")
                      THEN message = Str("No response from Nubila API")
                      ELSE message = Str("Request failed: " \o error.f.message.raw)

\* the entries a response body holds: the body itself when it is an array, the
\* array under data, forecast or items, none otherwise
EntriesOf(data) ==
    IF IsArray(data) THEN data.s
    ELSE IF \E key \in {"data", "forecast", "items"} : IsArray(Get(data, key))
    THEN Get(data, CHOOSE key \in {"data", "forecast", "items"} : IsArray(Get(data, key))).s
    ELSE <<>>

(***************************************************************************)
(* C24: getForecast returns the first `hours` entries of the provider's     *)
(* forecast sequence in their original order: the returned forecast list    *)
(* has length min(hours, number of entries available) for every hours, and  *)
(* an upstream payload from which no array can be extracted yields an empty *)
(* forecast list rather than a failure.                                     *)
(***************************************************************************)
C24_FirstHoursEntries ==
    (fetch.pc = "done" /\ fetch.settled.k = "return") =>
        LET entries == EntriesOf(fetch.settled.v.f.data)
            wanted == IF fetch.hours < Len(entries) THEN fetch.hours ELSE Len(entries)
        IN  /\ fetch.outcome.k = "return"
            /\ LET forecast == fetch.outcome.v.f.forecast.s IN
               /\ Len(forecast) = wanted
               /\ \A i \in 1..wanted :
                     forecast[i] = FormatEntry(entries[i], fetch.units)

(***************************************************************************)
(* C27: in the HTTP-transport variant (the server code of src/README.md),   *)
(* when the Entitlement Checker authorizes a gated call and returns an      *)
(* Envelope whose first content text carries no error indicator, execute    *)
(* returns to the caller without throwing, and what it returns is that      *)
(* Envelope unchanged.                                                      *)
(***************************************************************************)
C27_HttpEnvelopePassesThrough ==
    \A c \in CallIds :
        (/\ server = HttpServer /\ GatedCall(c) /\ Done(c)
         /\ calls[c].cbCalls = 1 /\ calls[c].responded
         /\ HasFirstText(calls[c].response)
         /\ ~HasNestedError(calls[c].response)) =>
            calls[c].outcome = Return(calls[c].response)

(***************************************************************************)
(* C23: process exit codes: when server start fails (main rejects) the      *)
(* process exits with a non-zero code (1), and when the unprotected server  *)
(* receives SIGINT or SIGTERM it exits with code 0 only after mcp.stop()    *)
(* has completed.                                                           *)
(***************************************************************************)
C23_ExitCodes ==
    /\ proc.start = "failed" => proc.exit = Num(1)
    /\ (proc.file = "unprotected-server.js" /\ proc.exit = Num(0)) =>
          \E i \in DOMAIN proc.handlers :
              proc.handlers[i].pc = "exited" /\ proc.handlers[i].stopped

\* the unprotected server got two signals; the stop of the second completed
\* first and the process exited with code 0 while the first was still stopping
C23_Witness ==
    /\ proc.file = "unprotected-server.js" /\ proc.exit = Num(0)
    /\ Len(proc.handlers) = 2
    /\ proc.handlers[1].pc = "stopping"
    /\ proc.handlers[2].pc = "exited" /\ proc.handlers[2].stopped

(***************************************************************************)
(* C25: the Envelope text for a handler result is built the same way on the *)
(* gated path as on the Free and Demo paths of src/protected-server.js: a   *)
(* string result is placed unchanged and a non-string result is stringified *)
(* pretty-printed, so an authorized gated call returns the Envelope a Demo  *)
(* call with the same handler result returns.                               *)
(***************************************************************************)
C25_SameTextOnEveryPath ==
    \A c \in CallIds :
        (/\ ProtectedServer /\ Done(c)
         /\ calls[c].handlerResult.k = "return"
         /\ calls[c].branch \in {"free", "demo"} \/ calls[c].cbCalls = 1) =>
            LET result == calls[c].handlerResult.v
                text == IF IsString(result) THEN result ELSE JSONstringify(result, TRUE)
            IN  /\ calls[c].branch \in {"free", "demo"} =>
                      calls[c].outcome = Return(Envelope(text))
                /\ calls[c].cbCalls = 1 =>
                      calls[c].cbResult = Return(Envelope(text))

(***************************************************************************)
(* C26: in src/protected-server.js the tier passed to radius.protect for a  *)
(* gated call is always the Tier Registry's tier of the operation being     *)
(* called, and the handler invoked by the inner callback is always that     *)
(* same operation's handler; no sequence of calls to different operations   *)
(* makes one operation be checked against, or served by, another            *)
(* operation's tier or handler.                                             *)
(***************************************************************************)
C26_OwnTierOwnHandler ==
    \A c \in CallIds :
        (ProtectedServer /\ GatedCall(c)) =>
            /\ calls[c].protectTier = Num(TOKEN_REQUIREMENTS[calls[c].op])
            /\ calls[c].cbCalls > 0 => calls[c].handlerInvoked = calls[c].op

\* an authorized gated call of getForecast: checked against tier 3, served
\* by the handler of getForecast
C26_Witness ==
    \E c \in CallIds :
        /\ ProtectedServer /\ GatedCall(c) /\ Done(c)
        /\ calls[c].op = "getForecast"
        /\ calls[c].protectTier = Num(3)
        /\ calls[c].cbCalls = 1 /\ calls[c].handlerInvoked = "getForecast"

C29_ArgsFromCheckerRequest ==
    \A c \in CallIds :
        (ProtectedServer /\ GatedCall(c) /\ calls[c].cbCalls > 0) =>
            LET request == calls[c].cbRequest
                got == calls[c].handlerArgs
            IN  IF HasKey(request, "params") /\ HasKey(request.f.params, "arguments")
                THEN LET given == request.f.params.f.arguments IN
                     /\ got.k = "obj"
                     /\ DOMAIN got.f = DOMAIN given.f \ {RESERVED}
                     /\ \A key \in DOMAIN got.f : got.f[key] = given.f[key]
                ELSE got = EmptyObj

\* the Checker delivered a request of its own without params to the callback
\* of a call that had arguments: the handler got an empty bag
C29_Witness ==
    \E c \in CallIds :
        /\ ProtectedServer /\ GatedCall(c) /\ calls[c].cbCalls = 1
        /\ ~HasKey(calls[c].cbRequest, "params")
        /\ HasKey(calls[c].args, "latitude")
        /\ calls[c].handlerCalls = 1
        /\ calls[c].handlerArgs = EmptyObj

\* three times the difference between the mean temperature of the last three
\* and of the first three entries of a forecast of at least six entries
MeanDifferenceTimes3(forecast) ==
    SumTemperature(SubSeq(forecast.s, Len(forecast.s) - 2, Len(forecast.s)))
        - SumTemperature(SubSeq(forecast.s, 1, 3))

(***************************************************************************)
(* C30: determineTrend returns 'stable' for every forecast with fewer than  *)
(* 6 entries (or a missing forecast); otherwise it compares the mean        *)
(* temperature of the first 3 entries with the mean of the last 3 and       *)
(* returns 'warming' only when the difference is strictly greater than 3,   *)
(* 'cooling' only when it is strictly less than -3, and 'stable' in every   *)
(* other case including a difference of exactly 3 or -3.                    *)
(***************************************************************************)
C30_TrendThresholds ==
    trend.applied =>
        IF trend.forecast.k # "arr" \/ Len(trend.forecast.s) < 6
        THEN trend.result = "stable"
        ELSE LET d == MeanDifferenceTimes3(trend.forecast) IN
             /\ trend.result = "warming" <=> d > 9
             /\ trend.result = "cooling" <=> d < -9
             /\ trend.result = "stable" <=> (d >= -9 /\ d <= 9)

====
